---- MODULE Spec2Model ----
(***************************************************************************)
(* The card-betting game of src/playapi.py and src/init.py: one shared     *)
(* Game object, changed by the request handlers of the router.  Every      *)
(* handler is one action; the request it served and the HTTP response it   *)
(* gave are kept in `resp`.  Game, Player and Card come from models.py:    *)
(* NewPlayer, PlayerPlaceBet and PlayerFold state what the handlers rely   *)
(* on from it.                                                             *)
(***************************************************************************)
EXTENDS Integers, Sequences, FiniteSets, TLC

\* ------------------------------------------------------------------ bounds
\* Shuffles considered: 0..MaxPasses passes over the freshly built 52-card
\* deck, a pass being a cut of one card followed by a perfect riffle.
MaxPasses == 2
\* Rounds started (initialize_game calls) and bets accepted per game instance.
MaxRounds == 2
MaxBets == 2
\* Names and amounts the requests carry; what the dealer API may answer.
NameList == <<"JK", "Alice", "Bob">>
Names == {NameList[i] : i \in DOMAIN NameList}
Amounts == {-50, 0, 1000, 1001}
Actions == {"bet", "fold", "show", "dance"}

\* ------------------------------------------------------------ cards, deck
suits == <<"hearts", "diamonds", "clubs", "spades">>
ranks == <<"2", "3", "4", "5", "6", "7", "8", "9", "10", "J", "Q", "K", "A">>

Card(rank, suit) == [rank |-> rank, suit |-> suit]

\* [Card(rank, suit) for suit in suits for rank in ranks]
FreshDeck ==
    [i \in 1..(Len(suits) * Len(ranks)) |->
        Card(ranks[((i - 1) % Len(ranks)) + 1], suits[((i - 1) \div Len(ranks)) + 1])]

Cut(d, c) == SubSeq(d, c + 1, Len(d)) \o SubSeq(d, 1, c)

Riffle(d) ==
    LET h == Len(d) \div 2
    IN  [i \in 1..Len(d) |->
            IF i > 2 * h THEN d[i]
            ELSE IF i % 2 = 1 THEN d[h + ((i + 1) \div 2)] ELSE d[i \div 2]]

RECURSIVE Passes(_, _)
Passes(d, j) == IF j = 0 THEN d ELSE Passes(Riffle(Cut(d, 1)), j - 1)

\* random.shuffle(deck): any order of the deck; the orders drawn here.
Shuffles == {Passes(FreshDeck, j) : j \in 0..MaxPasses}

rank_map ==
    [r \in {ranks[i] : i \in DOMAIN ranks} |->
        CHOOSE v \in 2..14 : ranks[v - 1] = r]

\* What GET {host_url}/get_cards answered: a failure, or a list of cards.
FetchFailed == [ok |-> FALSE, cards |-> << >>]
Fetched == {FetchFailed, [ok |-> TRUE, cards |-> <<Card("A", "hearts"), Card("A", "clubs")>>]}

\* --------------------------------------------------------------- models.py
DefaultBalance == 1000

NewPlayer(name, cards) ==
    [name |-> name, balance |-> DefaultBalance, cards |-> cards,
     current_bet |-> 0, is_active |-> TRUE]

\* Player.place_bet(amount) -> (success, player afterwards)
PlayerPlaceBet(p, amount) ==
    IF amount <= 0 \/ amount > p.balance
    THEN [success |-> FALSE, player |-> p]
    ELSE [success |-> TRUE,
          player |-> [p EXCEPT !.balance = @ - amount, !.current_bet = @ + amount]]

\* Player.fold()
PlayerFold(p) == [p EXCEPT !.is_active = FALSE]

\* ------------------------------------------------------------------ state
VARIABLES
    players,              \* game.players: sequence of player records
    deck,                 \* game.deck
    pot,                  \* game.pot
    current_turn_order,   \* game.current_turn_order: sequence of names
    current_turn_index,   \* game.current_turn_index (0-based)
    is_active,            \* game.is_active
    resp,                 \* the last request and the response it got
    roundBets,            \* sum of the bets accepted since the round started
    roundPaid,            \* sum paid out of the pot since the round started
    moves,                \* accepted bets and non-settling folds since then
    rounds,               \* rounds started since the game was created
    nbets,                \* bets accepted since the game was created
    thr                   \* the requests being served concurrently, per worker thread

game == <<players, deck, pot, current_turn_order, current_turn_index, is_active>>
hist == <<roundBets, roundPaid, moves, rounds, nbets>>
vars == <<players, deck, pot, current_turn_order, current_turn_index, is_active,
          resp, roundBets, roundPaid, moves, rounds, nbets, thr>>

Response(op, name, action, amount, status, detail, cause, winner, value) ==
    [op |-> op, name |-> name, action |-> action, amount |-> amount,
     status |-> status, detail |-> detail, cause |-> cause,
     winner |-> winner, value |-> value]

\* raise HTTPException(status_code, detail)
Raise(op, name, action, amount, status, detail) ==
    /\ resp' = Response(op, name, action, amount, status, detail, "", "", 0)
    /\ UNCHANGED <<game, hist>>

\* The threads of the server's pool that serve the (sync) handlers.
Threads == {"t1", "t2"}
Idle == [pc |-> "idle", name |-> "", amount |-> 0, i |-> 0, cards |-> << >>]

\* game = Game()
Init ==
    /\ players = << >>
    /\ deck = << >>
    /\ pot = 0
    /\ current_turn_order = << >>
    /\ current_turn_index = 0
    /\ is_active = FALSE
    /\ resp = Response("", "", "", 0, 200, "", "", "", 0)
    /\ roundBets = 0
    /\ roundPaid = 0
    /\ moves = 0
    /\ rounds = 0
    /\ nbets = 0
    /\ thr = [t \in Threads |-> Idle]

\* next((p for p in game.players if p.name == name), None): its position, or 0
FindPlayer(name) ==
    IF \E i \in DOMAIN players : players[i].name = name
    THEN CHOOSE i \in DOMAIN players :
            /\ players[i].name = name
            /\ \A j \in DOMAIN players : players[j].name = name => i <= j
    ELSE 0

\* [p for p in game.players if p.is_active], as positions in ps
ActivePlayers(ps) == SelectSeq([i \in DOMAIN ps |-> i], LAMBDA i : ps[i].is_active)

\* ----------------------------------------------------------- /start_game
StartGame ==
    /\ players' = << >>
    /\ deck' = << >>
    /\ pot' = 0
    /\ current_turn_order' = << >>
    /\ current_turn_index' = 0
    /\ is_active' = FALSE
    /\ resp' = Response("start_game", "", "", 0, 200, "New game initialized", "", "", 0)
    /\ roundBets' = 0
    /\ roundPaid' = 0
    /\ moves' = 0
    /\ rounds' = 0
    /\ nbets' = 0

\* ------------------------------------------------------------ /join_game
\* if game.is_active: raise ... "Game already started"
GameStartedNever == FALSE
GameStarted == is_active

JoinGame(name, cards_data) ==
    IF GameStarted
    THEN Raise("join_game", name, "", 0, 400, "Game already started")
    ELSE IF \E i \in DOMAIN players : players[i].name = name
    THEN Raise("join_game", name, "", 0, 400, "Name already exists")
    ELSE IF ~cards_data.ok
    THEN Raise("join_game", name, "", 0, 500, "Failed to fetch cards")
    ELSE /\ players' = Append(players, NewPlayer(name, cards_data.cards))
         /\ resp' = Response("join_game", name, "", 0, 200, "Joined", "", "", 0)
         /\ UNCHANGED <<deck, pot, current_turn_order, current_turn_index, is_active, hist>>

\* ------------------------------------------------------- initialize_game
\* for player in game.players: player.cards = [game.deck.pop(), game.deck.pop()]
RECURSIVE DealLoopOnePop(_, _, _)
DealLoopOnePop(ps, d, i) ==
    IF i > Len(ps) THEN [players |-> ps, deck |-> d]
    ELSE DealLoopOnePop([ps EXCEPT ![i].cards = <<d[Len(d)], d[Len(d) - 1]>>],
                        SubSeq(d, 1, Len(d) - 1), i + 1)

RECURSIVE DealLoop(_, _, _)
DealLoop(ps, d, i) ==
    IF i > Len(ps) THEN [players |-> ps, deck |-> d]
    ELSE DealLoop([ps EXCEPT ![i].cards = <<d[Len(d)], d[Len(d) - 1]>>],
                  SubSeq(d, 1, Len(d) - 2), i + 1)

InitializeGameKeepIndex(shuffled) ==
    LET dealt == DealLoop(players, shuffled, 1)
    IN  /\ players' = dealt.players
        /\ deck' = dealt.deck
        /\ current_turn_order' = [i \in DOMAIN players |-> players[i].name]
        /\ current_turn_index' = current_turn_index
        /\ is_active' = TRUE

InitializeGame(shuffled) ==
    LET dealt == DealLoop(players, shuffled, 1)
    IN  /\ players' = dealt.players
        /\ deck' = dealt.deck
        /\ current_turn_order' = [i \in DOMAIN players |-> players[i].name]
        /\ current_turn_index' = 0
        /\ is_active' = TRUE

\* -------------------------------------------------------- /start_and_play
StartAndPlay(shuffled) ==
    IF Len(players) < 2
    THEN Raise("start_and_play", "", "", 0, 400, "Need at least 2 players")
    ELSE IF is_active
    THEN Raise("start_and_play", "", "", 0, 400, "Game already started")
    ELSE /\ InitializeGame(shuffled)
         /\ resp' = Response("start_and_play", "", "", 0, 200, "Game started", "",
                             players[1].name, 0)
         /\ roundBets' = 0
         /\ roundPaid' = 0
         /\ moves' = 0
         /\ rounds' = rounds + 1
         /\ UNCHANGED <<pot, nbets>>

\* player.place_bet(amount) of the player at position i, and its effect
BetResultIgnored(i, amount) ==
    [success |-> TRUE,
     player |-> [players[i] EXCEPT !.balance = @ - amount, !.current_bet = @ + amount]]
BetResult(i, amount) == PlayerPlaceBet(players[i], amount)

\* current_turn_order[current_turn_index] != player.name
NotYourTurnNever(i) == FALSE
NotYourTurn(i) == current_turn_order[current_turn_index + 1] # players[i].name

\* (current_turn_index + 1) % len(current_turn_order); -1 when the list is empty
\* (the modulo raises ZeroDivisionError)
NextTurnIndexSkipping ==
    IF Len(current_turn_order) = 0 THEN -1
    ELSE (current_turn_index + 2) % Len(current_turn_order)
NextTurnIndex ==
    IF Len(current_turn_order) = 0 THEN -1
    ELSE (current_turn_index + 1) % Len(current_turn_order)

\* game.pot += bet.amount
PotAfterBetReplaced(amount) == amount
PotAfterBet(amount) == pot + amount

\* ------------------------------------------------------------ /place_bet
PlaceBet(name, amount) ==
    LET i == FindPlayer(name)
    IN  IF ~is_active
        THEN Raise("place_bet", name, "", amount, 400, "Game not active")
        ELSE IF i = 0 \/ ~players[i].is_active
        THEN Raise("place_bet", name, "", amount, 404, "Player not found or inactive")
        ELSE IF NotYourTurn(i)
        THEN Raise("place_bet", name, "", amount, 400, "Not your turn")
        ELSE IF ~BetResult(i, amount).success
        THEN Raise("place_bet", name, "", amount, 400, "Invalid bet")
        ELSE /\ players' = [players EXCEPT ![i] = BetResult(i, amount).player]
             /\ pot' = PotAfterBet(amount)
             /\ current_turn_index' = NextTurnIndex
             /\ resp' = Response("place_bet", name, "", amount, 200, "Bet placed", "",
                                 "", PotAfterBet(amount))
             /\ roundBets' = roundBets + amount
             /\ moves' = moves + 1
             /\ nbets' = nbets + 1
             /\ UNCHANGED <<deck, current_turn_order, is_active, roundPaid, rounds>>

\* ----------------------------------------------------------------- /fold
\* the players after player.fold() of the player at position i
AfterFold(i) == [players EXCEPT ![i] = PlayerFold(players[i])]

\* winner.balance += game.pot, the winner at position w of ps
PayFirstPlayer(ps, w) == [ps EXCEPT ![1].balance = @ + pot]
PayWinner(ps, w) == [ps EXCEPT ![w].balance = @ + pot]

FoldPlayer(name) ==
    LET i == FindPlayer(name)
    IN  IF i = 0 \/ ~players[i].is_active
        THEN Raise("fold", name, "", 0, 404, "Player not found or inactive")
        ELSE LET folded == AfterFold(i)
                 active_players == ActivePlayers(folded)
             IN  IF Len(active_players) = 1
                 THEN LET winner == active_players[1]
                      IN  /\ players' = PayWinner(folded, winner)
                          /\ pot' = 0
                          /\ is_active' = FALSE
                          /\ resp' = Response("fold", name, "", 0, 200, "winner", "",
                                              folded[winner].name,
                                              folded[winner].balance + pot)
                          /\ roundPaid' = roundPaid + pot
                          /\ UNCHANGED <<deck, current_turn_order, current_turn_index,
                                         roundBets, moves, rounds, nbets>>
                 ELSE IF NextTurnIndex = -1
                 THEN \* ZeroDivisionError after player.fold(): 500, the fold stays
                      /\ players' = folded
                      /\ resp' = Response("fold", name, "", 0, 500,
                                          "Internal Server Error", "ZeroDivisionError",
                                          "", 0)
                      /\ UNCHANGED <<deck, pot, current_turn_order, current_turn_index,
                                     is_active, hist>>
                 ELSE /\ players' = folded
                      /\ current_turn_index' = NextTurnIndex
                      /\ resp' = Response("fold", name, "", 0, 200, "Folded", "", "", 0)
                      /\ moves' = moves + 1
                      /\ UNCHANGED <<deck, pot, current_turn_order, is_active,
                                     roundBets, roundPaid, rounds, nbets>>

\* -------------------------------------------------------- /compare_cards
\* sum(rank_map[card.rank] for card in player.cards)
RECURSIVE SumRanks(_)
SumRanks(cards) ==
    IF cards = << >> THEN 0 ELSE rank_map[Head(cards).rank] + SumRanks(Tail(cards))

\* the loop over active_players: the winner, given best_score and winner before
\* the k-th of them
RECURSIVE BestLoopLastMax(_, _, _, _)
BestLoopLastMax(active_players, k, best_score, winner) ==
    IF k > Len(active_players) THEN winner
    ELSE LET score == SumRanks(players[active_players[k]].cards)
         IN  IF score >= best_score
             THEN BestLoopLastMax(active_players, k + 1, score, active_players[k])
             ELSE BestLoopLastMax(active_players, k + 1, best_score, winner)

RECURSIVE BestLoop(_, _, _, _)
BestLoop(active_players, k, best_score, winner) ==
    IF k > Len(active_players) THEN winner
    ELSE LET score == SumRanks(players[active_players[k]].cards)
         IN  IF score > best_score
             THEN BestLoop(active_players, k + 1, score, active_players[k])
             ELSE BestLoop(active_players, k + 1, best_score, winner)

CompareCards ==
    IF ~is_active
    THEN Raise("compare_cards", "", "", 0, 400, "Game not active")
    ELSE LET active_players == ActivePlayers(players)
         IN  IF Len(active_players) < 2
             THEN Raise("compare_cards", "", "", 0, 400, "Not enough players to compare")
             ELSE LET winner == BestLoop(active_players, 1, -1, 0)
                  IN  /\ players' = PayWinner(players, winner)
                      /\ pot' = 0
                      /\ is_active' = FALSE
                      /\ resp' = Response("compare_cards", "", "", 0, 200, "winner", "",
                                          players[winner].name,
                                          players[winner].balance + pot)
                      /\ roundPaid' = roundPaid + pot
                      /\ UNCHANGED <<deck, current_turn_order, current_turn_index,
                                     roundBets, moves, rounds, nbets>>

\* --------------------------------------------------------------- /isurturn
\* except Exception as e: raise HTTPException(500, "Error handling action: ...");
\* `cause` is the exception that was caught
RaiseInAction(action, amount, cause) ==
    /\ resp' = Response("isurturn", "", action, amount, 500, "Error handling action",
                        cause, "", 0)
    /\ UNCHANGED <<game, hist>>

ActionBet(amount) ==
    LET current_player_name == current_turn_order[current_turn_index + 1]
        i == FindPlayer(current_player_name)
    IN  IF amount <= 0
        THEN RaiseInAction("bet", amount, "Invalid bet amount")
        ELSE IF i = 0 \/ ~players[i].is_active
        THEN RaiseInAction("bet", amount, "Player not found or inactive")
        ELSE IF ~PlayerPlaceBet(players[i], amount).success
        THEN RaiseInAction("bet", amount, "Invalid bet")
        ELSE /\ players' = [players EXCEPT ![i] = PlayerPlaceBet(players[i], amount).player]
             /\ pot' = pot + amount
             /\ current_turn_index' = (current_turn_index + 1) % Len(current_turn_order)
             /\ resp' = Response("isurturn", "", "bet", amount, 200, "Bet placed", "",
                                 "", pot + amount)
             /\ roundBets' = roundBets + amount
             /\ moves' = moves + 1
             /\ nbets' = nbets + 1
             /\ UNCHANGED <<deck, current_turn_order, is_active, roundPaid, rounds>>

ActionFold ==
    LET current_player_name == current_turn_order[current_turn_index + 1]
        i == FindPlayer(current_player_name)
    IN  IF i = 0 \/ ~players[i].is_active
        THEN RaiseInAction("fold", 0, "Player not found or inactive")
        ELSE LET folded == [players EXCEPT ![i] = PlayerFold(players[i])]
                 active_players == ActivePlayers(folded)
             IN  IF Len(active_players) = 1
                 THEN LET winner == active_players[1]
                      IN  /\ players' = [folded EXCEPT ![winner].balance = @ + pot]
                          /\ pot' = 0
                          /\ is_active' = FALSE
                          /\ resp' = Response("isurturn", "", "fold", 0, 200, "winner",
                                              "", folded[winner].name,
                                              folded[winner].balance + pot)
                          /\ roundPaid' = roundPaid + pot
                          /\ UNCHANGED <<deck, current_turn_order, current_turn_index,
                                         roundBets, moves, rounds, nbets>>
                 ELSE /\ players' = folded
                      /\ current_turn_index' =
                            (current_turn_index + 1) % Len(current_turn_order)
                      /\ resp' = Response("isurturn", "", "fold", 0, 200, "Folded", "",
                                          "", 0)
                      /\ moves' = moves + 1
                      /\ UNCHANGED <<deck, pot, current_turn_order, is_active,
                                     roundBets, roundPaid, rounds, nbets>>

RECURSIVE ShowLoopLastMax(_, _, _, _)
ShowLoopLastMax(active_players, k, best_score, winner) ==
    IF k > Len(active_players) THEN winner
    ELSE LET score == SumRanks(players[active_players[k]].cards)
         IN  IF score >= best_score
             THEN ShowLoopLastMax(active_players, k + 1, score, active_players[k])
             ELSE ShowLoopLastMax(active_players, k + 1, best_score, winner)

\* the loop of the "show" branch over active_players
RECURSIVE ShowLoop(_, _, _, _)
ShowLoop(active_players, k, best_score, winner) ==
    IF k > Len(active_players) THEN winner
    ELSE LET score == SumRanks(players[active_players[k]].cards)
         IN  IF score > best_score
             THEN ShowLoop(active_players, k + 1, score, active_players[k])
             ELSE ShowLoop(active_players, k + 1, best_score, winner)

ActionShow ==
    LET active_players == ActivePlayers(players)
    IN  IF Len(active_players) < 2
        THEN RaiseInAction("show", 0, "Not enough players to compare")
        ELSE LET winner == ShowLoop(active_players, 1, -1, 0)
             IN  /\ players' = [players EXCEPT ![winner].balance = @ + pot]
                 /\ pot' = 0
                 /\ is_active' = FALSE
                 /\ resp' = Response("isurturn", "", "show", 0, 200, "winner", "",
                                     players[winner].name, players[winner].balance + pot)
                 /\ roundPaid' = roundPaid + pot
                 /\ UNCHANGED <<deck, current_turn_order, current_turn_index,
                                roundBets, moves, rounds, nbets>>

\* request = {"action": action, "amount": amount}
HandlePlayerAction(action, amount) ==
    IF ~is_active
    THEN Raise("isurturn", "", action, amount, 400, "Game not active")
    ELSE IF action = "bet" THEN ActionBet(amount)
    ELSE IF action = "fold" THEN ActionFold
    ELSE IF action = "show" THEN ActionShow
    ELSE RaiseInAction(action, amount, "Invalid action")

\* Names are only ever compared for equality, so a join request carries a name
\* that is already in the game or the first name of NameList that is not.
JoinNames ==
    {n \in Names : \A i \in DOMAIN NameList :
        NameList[i] = n => \A j \in 1..(i - 1) :
            \E k \in DOMAIN players : players[k].name = NameList[j]}

\* One request at a time: every handler runs from its first line to its return.
Next ==
    /\ \/ StartGame
       \/ \E name \in JoinNames, cards_data \in Fetched : JoinGame(name, cards_data)
       \/ rounds < MaxRounds /\ \E shuffled \in Shuffles : StartAndPlay(shuffled)
       \/ nbets < MaxBets /\ \E name \in Names, amount \in Amounts : PlaceBet(name, amount)
       \/ \E name \in Names : FoldPlayer(name)
       \/ CompareCards
       \/ nbets < MaxBets /\ \E amount \in Amounts : HandlePlayerAction("bet", amount)
       \/ \E action \in Actions \ {"bet"} : HandlePlayerAction(action, 0)
    /\ UNCHANGED thr

Spec == Init /\ [][Next]_vars

\* ------------------------------------------------- requests served in parallel
\* /join_game and /place_bet are plain `def` handlers: the server runs each in
\* a thread of its pool, with no lock around the shared game.  A step below is
\* one statement (or one check) of a handler, run by thread t.
ConcAmounts == {400}

Goto(t, pc) == thr' = [thr EXCEPT ![t].pc = pc]

\* raise HTTPException in thread t: the response goes out, the thread is free
ThreadRaise(t, op, status, detail) ==
    /\ resp' = Response(op, thr[t].name, "", thr[t].amount, status, detail, "", "", 0)
    /\ thr' = [thr EXCEPT ![t] = Idle]
    /\ UNCHANGED <<game, hist>>

\* a request reaches the handler
ReceiveBet(t, name, amount) ==
    /\ thr[t].pc = "idle"
    /\ thr' = [thr EXCEPT ![t] = [Idle EXCEPT !.pc = "bet_active", !.name = name,
                                              !.amount = amount]]
    /\ UNCHANGED <<game, hist, resp>>

ReceiveJoin(t, name) ==
    /\ thr[t].pc = "idle"
    /\ thr' = [thr EXCEPT ![t] = [Idle EXCEPT !.pc = "join_active", !.name = name]]
    /\ UNCHANGED <<game, hist, resp>>

\* place_bet, line 61: if not game.is_active
BetCheckActive(t) ==
    /\ thr[t].pc = "bet_active"
    /\ IF ~is_active
       THEN ThreadRaise(t, "place_bet", 400, "Game not active")
       ELSE Goto(t, "bet_find") /\ UNCHANGED <<game, hist, resp>>

\* place_bet, lines 64-66: player = next(...); if not player or not player.is_active
BetFindPlayer(t) ==
    /\ thr[t].pc = "bet_find"
    /\ LET i == FindPlayer(thr[t].name)
       IN  IF i = 0 \/ ~players[i].is_active
           THEN ThreadRaise(t, "place_bet", 404, "Player not found or inactive")
           ELSE /\ thr' = [thr EXCEPT ![t].pc = "bet_turn", ![t].i = i]
                /\ UNCHANGED <<game, hist, resp>>

\* place_bet, lines 68-69: the turn check
BetCheckTurn(t) ==
    /\ thr[t].pc = "bet_turn"
    /\ IF NotYourTurn(thr[t].i)
       THEN ThreadRaise(t, "place_bet", 400, "Not your turn")
       ELSE Goto(t, "bet_place") /\ UNCHANGED <<game, hist, resp>>

\* place_bet, lines 71-73: success, msg = player.place_bet(bet.amount)
BetPlace(t) ==
    /\ thr[t].pc = "bet_place"
    /\ IF ~BetResult(thr[t].i, thr[t].amount).success
       THEN ThreadRaise(t, "place_bet", 400, "Invalid bet")
       ELSE /\ players' = [players EXCEPT
                               ![thr[t].i] = BetResult(thr[t].i, thr[t].amount).player]
            /\ nbets' = nbets + 1
            /\ Goto(t, "bet_pot")
            /\ UNCHANGED <<deck, pot, current_turn_order, current_turn_index, is_active,
                           resp, roundBets, roundPaid, moves, rounds>>

\* place_bet, line 75: game.pot += bet.amount
BetAddPot(t) ==
    /\ thr[t].pc = "bet_pot"
    /\ pot' = PotAfterBet(thr[t].amount)
    /\ roundBets' = roundBets + thr[t].amount
    /\ Goto(t, "bet_index")
    /\ UNCHANGED <<players, deck, current_turn_order, current_turn_index, is_active,
                   resp, roundPaid, moves, rounds, nbets>>

\* place_bet, line 76: the index moves on
BetAdvance(t) ==
    /\ thr[t].pc = "bet_index"
    /\ current_turn_index' = NextTurnIndex
    /\ moves' = moves + 1
    /\ Goto(t, "bet_return")
    /\ UNCHANGED <<players, deck, pot, current_turn_order, is_active,
                   resp, roundBets, roundPaid, rounds, nbets>>

\* place_bet, line 77: return {"status": "Bet placed", "current_pot": game.pot}
BetReturn(t) ==
    /\ thr[t].pc = "bet_return"
    /\ resp' = Response("place_bet", thr[t].name, "", thr[t].amount, 200, "Bet placed",
                        "", "", pot)
    /\ thr' = [thr EXCEPT ![t] = Idle]
    /\ UNCHANGED <<game, hist>>

\* join_game, lines 25-26
JoinCheckActive(t) ==
    /\ thr[t].pc = "join_active"
    /\ IF GameStarted
       THEN ThreadRaise(t, "join_game", 400, "Game already started")
       ELSE Goto(t, "join_name") /\ UNCHANGED <<game, hist, resp>>

\* join_game, lines 28-29
JoinCheckName(t) ==
    /\ thr[t].pc = "join_name"
    /\ IF \E i \in DOMAIN players : players[i].name = thr[t].name
       THEN ThreadRaise(t, "join_game", 400, "Name already exists")
       ELSE Goto(t, "join_fetch") /\ UNCHANGED <<game, hist, resp>>

\* join_game, lines 32-37: the request to the dealer API
JoinFetch(t, cards_data) ==
    /\ thr[t].pc = "join_fetch"
    /\ IF ~cards_data.ok
       THEN ThreadRaise(t, "join_game", 500, "Failed to fetch cards")
       ELSE /\ thr' = [thr EXCEPT ![t].pc = "join_append", ![t].cards = cards_data.cards]
            /\ UNCHANGED <<game, hist, resp>>

\* join_game, lines 40-41
JoinAppend(t) ==
    /\ thr[t].pc = "join_append"
    /\ players' = Append(players, NewPlayer(thr[t].name, thr[t].cards))
    /\ Goto(t, "join_return")
    /\ UNCHANGED <<deck, pot, current_turn_order, current_turn_index, is_active,
                   resp, hist>>

\* join_game, line 43
JoinReturn(t) ==
    /\ thr[t].pc = "join_return"
    /\ resp' = Response("join_game", thr[t].name, "", 0, 200, "Joined", "", "", 0)
    /\ thr' = [thr EXCEPT ![t] = Idle]
    /\ UNCHANGED <<game, hist>>

AllIdle == \A t \in Threads : thr[t].pc = "idle"

\* Joins and bets arrive at any time and their statements interleave; the
\* round is started between requests.
ConcNext ==
    \/ \E t \in Threads, name \in JoinNames : ReceiveJoin(t, name)
    \/ /\ nbets < MaxBets
       /\ \E t \in Threads, name \in Names, amount \in ConcAmounts :
            ReceiveBet(t, name, amount)
    \/ \E t \in Threads :
        \/ BetCheckActive(t)
        \/ BetFindPlayer(t)
        \/ BetCheckTurn(t)
        \/ BetPlace(t)
        \/ BetAddPot(t)
        \/ BetAdvance(t)
        \/ BetReturn(t)
        \/ JoinCheckActive(t)
        \/ JoinCheckName(t)
        \/ \E cards_data \in Fetched : JoinFetch(t, cards_data)
        \/ JoinAppend(t)
        \/ JoinReturn(t)
    \/ /\ AllIdle /\ rounds < MaxRounds
       /\ \E shuffled \in Shuffles : StartAndPlay(shuffled)
       /\ UNCHANGED thr

SpecConc == Init /\ [][ConcNext]_vars

\* ------------------------------------------------------- reading a step
\* The request a step served and the game before and after it.
OnTurn == current_turn_order[current_turn_index + 1]

Known(name) == \E i \in DOMAIN players : players[i].name = name

KnownActive(name) ==
    \E i \in DOMAIN players : players[i].name = name /\ players[i].is_active

BalanceOf(name) ==
    LET i == CHOOSE i \in DOMAIN players : players[i].name = name
    IN  players[i].balance

Accepted == resp'.status = 200
Rejected == resp'.status # 200

BetCall == resp'.op = "place_bet"
FoldCall == resp'.op = "fold"
ActionCall(action) == resp'.op = "isurturn" /\ resp'.action = action

\* A round in progress ends by a fold or a showdown (not by a new Game()).
RoundSettles == is_active /\ ~is_active' /\ resp'.op # "start_game"

\* Exactly the player at position w gains x, every other balance stays.
OnlyCredited(w, x) ==
    /\ DOMAIN players' = DOMAIN players
    /\ players'[w].balance = players[w].balance + x
    /\ \A j \in DOMAIN players : j # w => players'[j].balance = players[j].balance

\* Nothing of the game but the response changed.
GameUnchanged == UNCHANGED game

\* ------------------------------------------------------------------ C1
\* C1: when a round settles (a fold leaving one active player, or a showdown),
\* exactly one player is credited, with the sum of the bets accepted since the
\* round started, and the pot becomes 0; no other step credits any balance, so
\* that pot is never paid again.
C1_PotPaidOnce ==
    /\ [][RoundSettles =>
            /\ pot' = 0
            /\ \E w \in DOMAIN players : OnlyCredited(w, roundBets)]_vars
    /\ [][~RoundSettles =>
            \A j \in DOMAIN players \cap DOMAIN players' :
                players'[j].balance <= players[j].balance]_vars

C1_Witness ==
    /\ ~is_active
    /\ resp.status = 200 /\ resp.detail = "winner"
    /\ roundBets = 2000 /\ pot = 0
    /\ \E i \in DOMAIN players : players[i].balance = DefaultBalance + 1000

\* ------------------------------------------------------------------ C2
\* C2: in an active round a /place_bet by a known active player who is not
\* current_turn_order[current_turn_index] gets "Not your turn" and changes
\* nothing; an accepted /place_bet names the player on turn.
C2_NotYourTurn ==
    /\ [][(BetCall /\ is_active /\ KnownActive(resp'.name) /\ resp'.name # OnTurn) =>
            /\ resp'.status = 400 /\ resp'.detail = "Not your turn"
            /\ GameUnchanged]_vars
    /\ [][(BetCall /\ Accepted) => (is_active /\ resp'.name = OnTurn)]_vars

C2_Witness ==
    /\ is_active /\ pot > 0
    /\ resp.op = "place_bet" /\ resp.detail = "Not your turn" /\ resp.amount = 1000
    /\ KnownActive(resp.name)

\* ------------------------------------------------------------------ C3
\* C3: in an active round every accepted bet or fold is by the player at
\* current_turn_order[current_turn_index].
C3_OnlyOnTurnActs ==
    [][(is_active /\ Accepted /\ (BetCall \/ FoldCall)) => resp'.name = OnTurn]_vars

\* ------------------------------------------------------------------ C4
\* C4: an accepted fold that leaves exactly one active player pays that player
\* the whole pot, zeroes the pot, ends the round and reports that player and
\* the new balance as the winner.
C4_FoldSettles ==
    [][((FoldCall \/ ActionCall("fold")) /\ Accepted
            /\ Len(ActivePlayers(players')) = 1) =>
        LET w == ActivePlayers(players')[1]
        IN  /\ OnlyCredited(w, pot)
            /\ pot' = 0
            /\ ~is_active'
            /\ resp'.detail = "winner"
            /\ resp'.winner = players'[w].name
            /\ resp'.value = players'[w].balance]_vars

C4_Witness ==
    /\ resp.op = "fold" /\ resp.status = 200 /\ resp.detail = "winner"
    /\ resp.value = DefaultBalance + 1000
    /\ \E i \in DOMAIN players :
        /\ i > 1 /\ players[i].name = resp.winner /\ players[i].is_active
        /\ players[i].balance = resp.value
    /\ pot = 0 /\ ~is_active

\* ------------------------------------------------------------------ C5
\* C5: a showdown pays the pot to the active player with the highest sum of
\* rank values (2..10, J=11, Q=12, K=13, A=14); among equal highest sums the one
\* earliest in current_turn_order wins; a folded player never wins.
RankValue(rank) ==
    CASE rank = "J" -> 11 [] rank = "Q" -> 12 [] rank = "K" -> 13 [] rank = "A" -> 14
      [] rank = "10" -> 10 [] rank = "9" -> 9 [] rank = "8" -> 8 [] rank = "7" -> 7
      [] rank = "6" -> 6 [] rank = "5" -> 5 [] rank = "4" -> 4 [] rank = "3" -> 3
      [] rank = "2" -> 2

HandValue(p) == RankValue(p.cards[1].rank) + RankValue(p.cards[2].rank)

TurnPosition(name) ==
    CHOOSE k \in DOMAIN current_turn_order :
        /\ current_turn_order[k] = name
        /\ \A m \in DOMAIN current_turn_order : current_turn_order[m] = name => k <= m

Showdown == (resp'.op = "compare_cards" \/ ActionCall("show")) /\ Accepted

C5_ShowdownWinner ==
    [][Showdown =>
        \E w \in DOMAIN players :
            /\ players[w].is_active
            /\ resp'.winner = players[w].name
            /\ OnlyCredited(w, pot)
            /\ \A j \in DOMAIN players : (players[j].is_active /\ j # w) =>
                \/ HandValue(players[j]) < HandValue(players[w])
                \/ /\ HandValue(players[j]) = HandValue(players[w])
                   /\ TurnPosition(players[w].name) < TurnPosition(players[j].name)]_vars

\* A showdown between two tied hands, won by the earlier one, with the pot paid.
C5_Witness ==
    /\ resp.op = "compare_cards" /\ resp.status = 200 /\ roundBets > 0
    /\ \E w, j \in DOMAIN players :
        /\ players[w].is_active /\ players[j].is_active /\ w < j
        /\ HandValue(players[w]) = HandValue(players[j])
        /\ resp.winner = players[w].name
        /\ players[w].balance > DefaultBalance

\* ------------------------------------------------------------------ C6
\* C6: within a round (current_turn_order fixed, of length L) the index is the
\* number of accepted bets and non-settling folds since the round started,
\* modulo L: each of them moves it to (index + 1) mod L, and no other step but a
\* round start or a new Game() changes it.
TurnMove ==
    /\ Accepted
    /\ \/ BetCall
       \/ ActionCall("bet")
       \/ (FoldCall \/ ActionCall("fold")) /\ resp'.detail = "Folded"

C6_RoundRobin ==
    /\ [](current_turn_order # << >> =>
            current_turn_index = moves % Len(current_turn_order))
    /\ [][TurnMove =>
            /\ current_turn_order' = current_turn_order
            /\ current_turn_index' =
                  (current_turn_index + 1) % Len(current_turn_order)]_vars
    /\ [][(current_turn_index' # current_turn_index) =>
            \/ TurnMove
            \/ resp'.op \in {"start_and_play", "start_game"} /\ current_turn_index' = 0]_vars

\* A round of three players whose index has gone 0, 1, 2 and is back at 0.
C6_Witness ==
    /\ is_active /\ Len(current_turn_order) = 3
    /\ moves = 3 /\ current_turn_index = 0

\* ------------------------------------------------------------------ C7
\* C7: a bet whose amount is <= 0 or more than the bettor's balance is rejected,
\* by /place_bet and by the "bet" action of /isurturn, and the game (balances,
\* current bets, pot, index) stays as it was; when the bettor is the active
\* player on turn the rejection is the invalid-bet one.
PlayerOnTurnActive == is_active /\ KnownActive(OnTurn)

C7_InvalidBet ==
    /\ [][(BetCall /\ (\/ resp'.amount <= 0
                       \/ Known(resp'.name) /\ resp'.amount > BalanceOf(resp'.name))) =>
            /\ Rejected
            /\ GameUnchanged
            /\ (PlayerOnTurnActive /\ resp'.name = OnTurn) =>
                    (resp'.status = 400 /\ resp'.detail = "Invalid bet")]_vars
    /\ [][(ActionCall("bet") /\ (\/ resp'.amount <= 0
                                 \/ is_active /\ resp'.amount > BalanceOf(OnTurn))) =>
            /\ Rejected
            /\ GameUnchanged
            /\ PlayerOnTurnActive =>
                    resp'.cause \in {"Invalid bet amount", "Invalid bet"}]_vars

\* An over-balance bet by the player on turn, refused with money on the table.
C7_Witness ==
    /\ is_active /\ pot = 1000
    /\ resp.op = "place_bet" /\ resp.amount = 1001 /\ resp.detail = "Invalid bet"
    /\ resp.name = OnTurn /\ BalanceOf(resp.name) = DefaultBalance

\* ------------------------------------------------------------------ C8
\* C8: a rejected request (any status but 200) leaves the whole game as it was.
C8_RejectionAtomic == [][Rejected => GameUnchanged]_vars

\* ------------------------------------------------------------------ C9
\* C9: a fold requested while no round is active is rejected and changes no
\* is_active flag, no balance, neither the pot nor the index.
C9_FoldOnlyWhileActive ==
    [][(FoldCall /\ ~is_active) =>
        (Rejected /\ UNCHANGED <<players, pot, current_turn_index>>)]_vars

\* ------------------------------------------------------------------ C10
\* C10: a join during an active round gets "Game already started" and changes
\* nothing; from one state of an active round to the next the players and
\* current_turn_order are the same.
PlayerNames(ps) == [i \in DOMAIN ps |-> ps[i].name]

C10_NoJoinWhileActive ==
    /\ [][(resp'.op = "join_game" /\ is_active) =>
            /\ resp'.status = 400 /\ resp'.detail = "Game already started"
            /\ GameUnchanged]_vars
    /\ [][(is_active /\ is_active') =>
            /\ PlayerNames(players') = PlayerNames(players)
            /\ current_turn_order' = current_turn_order]_vars

\* A name not yet in the game asks to join a round in progress.
C10_Witness ==
    /\ is_active /\ Len(players) = 2 /\ pot > 0
    /\ resp.op = "join_game" /\ resp.detail = "Game already started"
    /\ ~Known(resp.name)

\* ------------------------------------------------------------------ C11
\* C11: during a round every player holds exactly 2 cards, no card is held
\* twice or by two players, no dealt card is left in the deck, and the deck is
\* exactly the rest of the 52 cards, whatever the shuffle and also in a round
\* started after an earlier one.
HandCards == {players[i].cards[k] : i \in DOMAIN players, k \in 1..2}
DeckCards == {deck[k] : k \in DOMAIN deck}
AllCards == {FreshDeck[k] : k \in DOMAIN FreshDeck}

C11_Deal ==
    is_active =>
        /\ \A i \in DOMAIN players : Len(players[i].cards) = 2
        /\ Cardinality(HandCards) = 2 * Len(players)
        /\ HandCards \cap DeckCards = {}
        /\ Len(deck) = Cardinality(AllCards) - 2 * Len(players)
        /\ Cardinality(DeckCards) = Len(deck)
        /\ HandCards \cup DeckCards = AllCards
        /\ Cardinality(AllCards) = 52

\* The second round of a game, with three players, dealt from a shuffled deck.
C11_Witness ==
    /\ is_active /\ rounds = 2 /\ Len(players) = 3
    /\ deck # SubSeq(FreshDeck, 1, Len(deck))

\* ------------------------------------------------------------------ C12
\* C12: no balance is ever negative.
C12_BalanceNonNegative == \A i \in DOMAIN players : players[i].balance >= 0

\* A player who has bet the whole balance, while another has won a pot.
C12_Witness ==
    /\ \E i \in DOMAIN players : players[i].balance = 0 /\ players[i].current_bet > 0
    /\ \E j \in DOMAIN players : players[j].balance > DefaultBalance

\* ------------------------------------------------------------------ C13
\* C13 as stated: every player's current_bet is at most the balance.
C13_BetWithinBalance ==
    \A i \in DOMAIN players : players[i].current_bet <= players[i].balance

\* C13 as amended: an accepted bet of amount a is at most the bettor's balance
\* before it, takes a from that balance and adds a to that current_bet, and
\* touches no other player; current_bet may then exceed what is left.
AcceptedBet == (BetCall \/ ActionCall("bet")) /\ Accepted

C13_BetMovesAmount ==
    [][AcceptedBet =>
        \E i \in DOMAIN players :
            /\ 0 < resp'.amount /\ resp'.amount <= players[i].balance
            /\ players'[i].balance = players[i].balance - resp'.amount
            /\ players'[i].current_bet = players[i].current_bet + resp'.amount
            /\ players[i].current_bet + players[i].balance =
                  players'[i].current_bet + players'[i].balance
            /\ \A j \in DOMAIN players : j # i => players'[j] = players[j]]_vars

\* After an accepted bet the bettor's current_bet is above the balance left.
C13_Witness ==
    /\ resp.status = 200 /\ resp.detail = "Bet placed"
    /\ \E i \in DOMAIN players :
        /\ players[i].current_bet = resp.amount
        /\ players[i].current_bet > players[i].balance

\* ------------------------------------------------------------------ C14
\* C14: when a round settles every hand and every current_bet is cleared, the
\* players and balances staying as the settlement left them, and a round
\* starts with every current_bet at 0.
C14_RoundEndClears ==
    /\ [][RoundSettles =>
            /\ PlayerNames(players') = PlayerNames(players)
            /\ \A i \in DOMAIN players' :
                players'[i].current_bet = 0 /\ players'[i].cards = << >>]_vars
    /\ [][(resp'.op = "start_and_play" /\ Accepted) =>
            \A i \in DOMAIN players' : players'[i].current_bet = 0]_vars

\* ------------------------------------------------------------------ C15
\* C15 as stated: once the second join has succeeded the round is running.
C15_AutoStart ==
    (resp.op = "join_game" /\ resp.status = 200 /\ Len(players) >= 2) =>
        /\ is_active
        /\ \A i \in DOMAIN players : Len(players[i].cards) = 2
        /\ pot = 0
        /\ current_turn_order = PlayerNames(players)
        /\ current_turn_index = 0

\* C15 as amended: an accepted join never starts the round (the game stays
\* inactive, turn order and index as they were); the round starts with the
\* accepted /start_and_play, after which the game is active, every player
\* holds 2 cards, the pot is 0, the turn order is the join order and the index
\* is 0.
C15_ExplicitStart ==
    /\ [][(resp'.op = "join_game" /\ Accepted) =>
            /\ ~is_active /\ ~is_active'
            /\ UNCHANGED <<current_turn_order, current_turn_index, deck, pot>>]_vars
    /\ [][(resp'.op = "start_and_play" /\ Accepted) =>
            /\ ~is_active /\ is_active'
            /\ \A i \in DOMAIN players' : Len(players'[i].cards) = 2
            /\ pot' = 0
            /\ current_turn_order' = PlayerNames(players)
            /\ PlayerNames(players') = PlayerNames(players)
            /\ current_turn_index' = 0]_vars

\* Two players have joined an empty game and nothing has started.
C15_Witness ==
    /\ resp.op = "join_game" /\ resp.status = 200
    /\ Len(players) = 2 /\ rounds = 0
    /\ ~is_active /\ current_turn_order = << >>

\* ------------------------------------------------------------------ C16
DistinctNames == \A i, j \in DOMAIN players : players[i].name = players[j].name => i = j

\* thread t has taken a bet from its player and has not yet moved the turn on
BetTaken(t) == thr[t].pc \in {"bet_pot", "bet_index"}

StaleBet == \E t \in Threads : BetTaken(t) /\ OnTurn # thr[t].name

\* C16: with requests served in parallel no handler acts on a stale game: the
\* names of the players stay distinct (two joins with one name add one
\* player), and a bet that was taken is the bet of the player on turn (of two
\* bets sent for one turn, one is accepted).
C16_NoStaleAction == DistinctNames /\ ~StaleBet

\* ------------------------------------------------------------------ C17
\* the round is active and the index points at a player who has folded
StuckTurn == is_active /\ Known(OnTurn) /\ ~KnownActive(OnTurn)

\* C17: the rotation does not skip folded players.  When the round is active
\* and the player on turn has folded, every bet (by any name through
\* /place_bet, or through /isurturn) is rejected and changes nothing, and the
\* index moves only by an accepted /fold of another player (or is reset with
\* the whole game by /start_game).
C17_FoldedOnTurn ==
    [][StuckTurn =>
        /\ (BetCall \/ ActionCall("bet")) => Rejected /\ GameUnchanged
        /\ current_turn_index' # current_turn_index =>
              \/ FoldCall /\ Accepted /\ resp'.name # OnTurn
              \/ resp'.op = "start_game"]_vars

\* three players, the one on turn has folded, and a bet in that player's name
\* has just been turned down
C17_Witness ==
    /\ StuckTurn
    /\ Len(players) = 3
    /\ Len(ActivePlayers(players)) = 2
    /\ resp.op = "place_bet" /\ resp.status # 200 /\ resp.name = OnTurn

\* ------------------------------------------------------------------ C18
\* C18: whenever the round is active at least two players are active, also in
\* a round started again after an earlier one settled; so a showdown asked
\* during an active round is never turned down for lack of active players.
C18_TwoActive == is_active => Len(ActivePlayers(players)) >= 2

\* ------------------------------------------------------------------ C19
RECURSIVE SumBalances(_)
SumBalances(ps) ==
    IF ps = << >> THEN 0 ELSE Head(ps).balance + SumBalances(Tail(ps))

\* C19: money is conserved: in every state of a game the balances of its
\* players plus the pot add up to the starting balance times the number of
\* players who joined.
C19_MoneyConserved == SumBalances(players) + pot = DefaultBalance * Len(players)

\* two bets were paid out to one player: the others' money is now the winner's
C19_Witness ==
    /\ ~is_active
    /\ pot = 0
    /\ nbets = 2
    /\ \E i, j \in DOMAIN players :
         players[i].balance > DefaultBalance /\ players[j].balance < DefaultBalance

\* ------------------------------------------------------------------ C20
\* C20: in an active round /isurturn does what the dedicated operation does for
\* the player on turn: from the same state "bet" with amount a ends in the game
\* state, and with the accept/reject decision, of /place_bet for that player
\* and a, "fold" in those of /fold for that player, "show" in those of
\* /compare_cards; an unknown action is rejected and changes nothing.
C20_Dispatcher ==
    [][(is_active /\ resp'.op = "isurturn") =>
        \A g \in {game'}, ok \in {resp'.status = 200}, a \in {resp'.amount} :
            /\ resp'.action = "bet" =>
                 ENABLED (/\ PlaceBet(OnTurn, a)
                          /\ game' = g
                          /\ (resp'.status = 200) = ok)
            /\ resp'.action = "fold" =>
                 ENABLED (/\ FoldPlayer(OnTurn)
                          /\ game' = g
                          /\ (resp'.status = 200) = ok)
            /\ resp'.action = "show" =>
                 ENABLED (/\ CompareCards
                          /\ game' = g
                          /\ (resp'.status = 200) = ok)
            /\ resp'.action \notin {"bet", "fold", "show"} =>
                 ~ok /\ g = game]_vars

\* /isurturn has just settled a round by a showdown between two tied hands
C20_Witness ==
    /\ resp.op = "isurturn" /\ resp.action = "show" /\ resp.status = 200
    /\ ~is_active
    /\ \E i, j \in DOMAIN players :
         /\ i < j
         /\ players[i].is_active /\ players[j].is_active
         /\ SumRanks(players[i].cards) = SumRanks(players[j].cards)
         /\ resp.winner = players[i].name

====
